---- MODULE Spec2Model ----
(***************************************************************************)
(* Model of the two llama packs of this repository:                        *)
(*   HybridFusionRetrieverPack        (fusion_retriever/hybrid_fusion)      *)
(*   RecursiveRetrieverSmallToBigPack (recursive_retriever/small_to_big)    *)
(* A client program picks one pack class, constructs instances of it from   *)
(* its input and calls the instance's entry points.  The framework classes  *)
(* the packs wire together (splitter, retrievers, query engine) are not     *)
(* part of the repository; they are modelled by their documented contract.  *)
(***************************************************************************)
EXTENDS Integers, Sequences, FiniteSets, TLC

VARIABLES
    target,     \* the pack class the client uses: "A" or "B"
    docs,       \* pack B input: the documents, each given by its token count
    cfg,        \* pack A input: the keyword arguments of __init__
    packs,      \* the instances constructed so far (their fields)
    fresh,      \* allocator of object identities and generated node ids
    last,       \* the outcome of the most recent entry-point call
    rr,         \* the recursive retriever's position inside a pack B run
    retrLog     \* per query string, the pack A retrievals observed so far
                \* (how many, counted up to two, and what they returned)

vars == <<target, docs, cfg, packs, fresh, last, rr, retrLog>>

----------------------------------------------------------------------------
(* Bounds of the model *)

MaxDocs == 2
MaxBuilds == 2

DocLens == {100, 1100}
Corpus == {1, 2, 3}
QueryStrings == {1, 2}
NumQueriesChoices == {1, 2}
TopKs == {0, 1, 3}

----------------------------------------------------------------------------
(* Small helpers *)

Min(a, b) == IF a < b THEN a ELSE b

Range(s) == {s[i] : i \in 1..Len(s)}

SeqsUpTo(S, n) == UNION {[1..k -> S] : k \in 0..n}

RECURSIVE SumSeq(_)
SumSeq(s) == IF s = <<>> THEN 0 ELSE Head(s) + SumSeq(Tail(s))

----------------------------------------------------------------------------
(* Node identifiers and nodes (llama_index.schema) *)

NodeId(i) == [kind |-> "node", n |-> i]
Uuid(u) == [kind |-> "uuid", n |-> u]
NoId == [kind |-> "none", n |-> 0]

\* A TextNode: a contiguous token span [lo, hi) of document doc.
TextNode(id, d, lo, hi) ==
    [id_ |-> id, index_id |-> NoId, doc |-> d, lo |-> lo, hi |-> hi]

\* IndexNode.from_text_node(node, index_id): the same node plus a reference.
FromTextNode(node, index_id) == [node EXCEPT !.index_id = index_id]

Obj(kind, oid) == [kind |-> kind, oid |-> oid]

----------------------------------------------------------------------------
(* SentenceSplitter (framework) *)

RECURSIVE SplitSpan(_, _, _)
SplitSpan(lo, hi, c) ==
    IF lo >= hi THEN <<>>
    ELSE <<[lo |-> lo, hi |-> Min(hi, lo + c)]>> \o SplitSpan(lo + c, hi, c)

\* get_nodes_from_documents: every input node is split into chunks of at
\* most c tokens; each chunk is a new TextNode with a generated id.
RECURSIVE GetNodesFromDocuments(_, _, _)
GetNodesFromDocuments(ns, c, u) ==
    IF ns = <<>> THEN <<>>
    ELSE LET n == Head(ns)
             spans == SplitSpan(n.lo, n.hi, c)
             chunks == [k \in 1..Len(spans) |->
                          TextNode(Uuid(u + k - 1), n.doc, spans[k].lo, spans[k].hi)]
         IN chunks \o GetNodesFromDocuments(Tail(ns), c, u + Len(spans))

----------------------------------------------------------------------------
(* RecursiveRetrieverSmallToBigPack.__init__ *)

ParentChunkSize == 1024
\* mutant: one granularity is missing
sub_chunk_sizes_two == <<128, 256>>

sub_chunk_sizes == <<128, 256, 512>>
ChunkTopK == 2

Documents(ds) == [k \in 1..Len(ds) |-> TextNode(Uuid(0), k, 0, ds[k])]

\* mutant: the generated ids are left in place
AssignNodeIds_skipped(base) == base

\* for idx, node in enumerate(base_nodes): node.id_ = f"node-{idx}"
AssignNodeIds(base) == [i \in 1..Len(base) |-> [base[i] EXCEPT !.id_ = NodeId(i - 1)]]

BaseNodes(ds, u) ==
    AssignNodeIds(GetNodesFromDocuments(Documents(ds), ParentChunkSize, u))

\* mutant: the reference is taken from the variable the id loop left bound
SubINodes_leaked(base_nodes, base_node, c, u) ==
    LET sub_nodes == GetNodesFromDocuments(<<base_node>>, c, u)
    IN [k \in 1..Len(sub_nodes) |->
          FromTextNode(sub_nodes[k], base_nodes[Len(base_nodes)].id_)]

\* sub_inodes of one base node for one sub-parser
SubINodes(base_nodes, base_node, c, u) ==
    LET sub_nodes == GetNodesFromDocuments(<<base_node>>, c, u)
    IN [k \in 1..Len(sub_nodes) |-> FromTextNode(sub_nodes[k], base_node.id_)]

\* mutant: the parent's reference is taken from the variable the id loop left bound
OriginalNode_leaked(base_nodes, base_node) ==
    FromTextNode(base_node, base_nodes[Len(base_nodes)].id_)

\* original_node = IndexNode.from_text_node(base_node, base_node.node_id)
OriginalNode(base_nodes, base_node) == FromTextNode(base_node, base_node.id_)

\* the inner loop over sub_node_parsers, from parser p on
RECURSIVE SubNodesFrom(_, _, _, _)
SubNodesFrom(base_nodes, base_node, p, u) ==
    IF p > Len(sub_chunk_sizes) THEN <<>>
    ELSE LET s == SubINodes(base_nodes, base_node, sub_chunk_sizes[p], u)
         IN s \o SubNodesFrom(base_nodes, base_node, p + 1, u + Len(s))

\* mutant: the original node is not added
NodesForBase_noOriginal(base_nodes, base_node, u) ==
    SubNodesFrom(base_nodes, base_node, 1, u)

\* what one iteration of "for base_node in base_nodes" adds to all_nodes
NodesForBase(base_nodes, base_node, u) ==
    SubNodesFrom(base_nodes, base_node, 1, u) \o <<OriginalNode(base_nodes, base_node)>>

RECURSIVE AllNodesFrom(_, _, _)
AllNodesFrom(base_nodes, i, u) ==
    IF i > Len(base_nodes) THEN <<>>
    ELSE LET s == NodesForBase(base_nodes, base_nodes[i], u)
         IN s \o AllNodesFrom(base_nodes, i + 1, u + Len(s))

\* all_nodes_dict = {n.node_id: n for n in all_nodes}: a later node with the
\* same id replaces an earlier one.
AllNodesDict(all_nodes) ==
    [id \in {all_nodes[i].id_ : i \in 1..Len(all_nodes)} |->
        LET at == {i \in 1..Len(all_nodes) : all_nodes[i].id_ = id}
        IN all_nodes[CHOOSE i \in at : \A j \in at : j <= i]]

RootId == [kind |-> "root", n |-> 0]

\* The fields of a constructed RecursiveRetrieverSmallToBigPack.  base_nodes
\* is the constructor's local list, kept for reference.
InitB(ds, u) ==
    LET base_nodes == BaseNodes(ds, u + 8)
        all_nodes == AllNodesFrom(base_nodes, 1, u + 8 + Len(base_nodes))
        all_nodes_dict == AllNodesDict(all_nodes)
        vector_retriever_chunk ==
            [kind |-> "vector_retriever", oid |-> u + 5, similarity_top_k |-> ChunkTopK]
    IN [cls |-> "B",
        node_parser |-> Obj("node_parser", u),
        embed_model |-> Obj("embed_model", u + 1),
        llm |-> Obj("llm", u + 2),
        service_context |-> [kind |-> "service_context", oid |-> u + 3,
                             llm |-> u + 2, embed_model |-> u + 1],
        vector_index_chunk |-> [kind |-> "vector_index", oid |-> u + 4,
                                nodes |-> all_nodes],
        recursive_retriever |-> [kind |-> "recursive_retriever", oid |-> u + 6,
                                 root_id |-> RootId,
                                 retriever_dict |-> vector_retriever_chunk,
                                 node_dict |-> all_nodes_dict],
        query_engine |-> [kind |-> "query_engine", oid |-> u + 7, retriever |-> u + 6],
        base_nodes |-> base_nodes]

\* the number of identities InitB draws from the allocator
UsedB(ds, u) ==
    LET p == InitB(ds, u)
    IN 8 + Len(p.base_nodes) + Len(p.vector_index_chunk.nodes)

\* get_modules of pack B
ModulesB(self) ==
    [query_engine |-> self.query_engine,
     recursive_retriever |-> self.recursive_retriever,
     llm |-> self.llm,
     embed_model |-> self.embed_model,
     service_context |-> self.service_context]

PackBMethods == {"__init__", "get_modules", "run"}

----------------------------------------------------------------------------
(* RecursiveRetriever (framework) *)

\* the vector retriever over the chunk index returns the similarity_top_k
\* best nodes of the index; which ones depends on the embeddings.
HitSeqs(self) ==
    LET n == Len(self.vector_index_chunk.nodes)
        k == Min(self.recursive_retriever.retriever_dict.similarity_top_k, n)
    IN {h \in [1..k -> 1..n] : \A a, b \in 1..k : a # b => h[a] # h[b]}

\* hits whose reference was already seen are dropped before resolution
RECURSIVE DedupHits(_, _)
DedupHits(hits, visited) ==
    IF hits = <<>> THEN <<>>
    ELSE IF Head(hits).index_id \in visited THEN DedupHits(Tail(hits), visited)
    ELSE <<Head(hits)>> \o DedupHits(Tail(hits), visited \cup {Head(hits).index_id})

\* _get_object: the node mapping is consulted first, then the retrievers
GetObject(retriever, query_id) ==
    IF query_id \in DOMAIN retriever.node_dict
    THEN [kind |-> "node", node |-> retriever.node_dict[query_id]]
    ELSE IF query_id = retriever.root_id
    THEN [kind |-> "retriever", node |-> TextNode(NoId, 0, 0, 0)]
    ELSE [kind |-> "missing", node |-> TextNode(NoId, 0, 0, 0)]

----------------------------------------------------------------------------
(* VectorIndexRetriever, BM25Retriever, QueryFusionRetriever (framework) *)

NumChunks == Cardinality(Corpus)
Modes == {"reciprocal_rerank", "relative_score"}

\* The corpus ranked for a query: by embedding similarity, and by BM25.
\* Both are fixed functions of the corpus and the query.
VectorOrder(q) == [i \in 1..NumChunks |-> ((q + i - 2) % NumChunks) + 1]
BM25Order(q) == [i \in 1..NumChunks |-> ((q - i + 2 * NumChunks) % NumChunks) + 1]

RetrieverRetrieve(retriever, q) ==
    LET order == IF retriever.kind = "vector_retriever" THEN VectorOrder(q)
                 ELSE BM25Order(q)
    IN SubSeq(order, 1, Min(retriever.similarity_top_k, NumChunks))

\* one result list per (query, retriever), queries outermost
RECURSIVE RunQueries(_, _)
RunQueries(retrievers, queries) ==
    IF queries = <<>> THEN <<>>
    ELSE [r \in 1..Len(retrievers) |-> RetrieverRetrieve(retrievers[r], Head(queries))]
         \o RunQueries(retrievers, Tail(queries))

RECURSIVE Flatten(_)
Flatten(lists) == IF lists = <<>> THEN <<>> ELSE Head(lists) \o Flatten(Tail(lists))

\* the distinct elements of a sequence in order of first occurrence
RECURSIVE FirstSeen(_, _)
FirstSeen(s, seen) ==
    IF s = <<>> THEN <<>>
    ELSE IF Head(s) \in seen THEN FirstSeen(Tail(s), seen)
    ELSE <<Head(s)>> \o FirstSeen(Tail(s), seen \cup {Head(s)})

PosIn(list, x) == CHOOSE i \in 1..Len(list) : list[i] = x

RRFK == 60

RECURSIVE ProdFrom(_, _)
ProdFrom(a, b) == IF a > b THEN 1 ELSE a * ProdFrom(a + 1, b)

\* 1 / (rank + k), in units of 1 / ProdFrom(k, k + NumChunks - 1)
ReciprocalWeight(list, x) ==
    ProdFrom(RRFK, RRFK + NumChunks - 1) \div (RRFK + PosIn(list, x) - 1)

\* the min-max normalised score of x in a list whose scores fall with rank,
\* in units of 1 / ProdFrom(1, NumChunks)
RelativeWeight(list, x) ==
    IF Len(list) = 1 THEN ProdFrom(1, NumChunks)
    ELSE ((Len(list) - PosIn(list, x)) * ProdFrom(1, NumChunks)) \div (Len(list) - 1)

\* the score of x summed over the result lists that hold it
RECURSIVE FusedScore(_, _, _)
FusedScore(mode, lists, x) ==
    IF lists = <<>> THEN 0
    ELSE (IF x \notin Range(Head(lists)) THEN 0
          ELSE IF mode = "reciprocal_rerank" THEN ReciprocalWeight(Head(lists), x)
          ELSE RelativeWeight(Head(lists), x))
         + FusedScore(mode, Tail(lists), x)

RECURSIVE ScoresOf(_, _, _)
ScoresOf(mode, lists, seen) ==
    IF seen = <<>> THEN <<>>
    ELSE <<[node |-> Head(seen), score |-> FusedScore(mode, lists, Head(seen))]>>
         \o ScoresOf(mode, lists, Tail(seen))

\* e placed behind every element of the sorted sequence that scores as high
RECURSIVE InsertByScore(_, _)
InsertByScore(sorted, e) ==
    IF sorted = <<>> THEN <<e>>
    ELSE IF Head(sorted).score >= e.score
    THEN <<Head(sorted)>> \o InsertByScore(Tail(sorted), e)
    ELSE <<e>> \o sorted

RECURSIVE SortByScore(_, _)
SortByScore(scored, sorted) ==
    IF scored = <<>> THEN sorted
    ELSE SortByScore(Tail(scored), InsertByScore(sorted, Head(scored)))

\* sorted(..., key=score, reverse=True): stable on the first-seen order
Fuse(mode, lists) ==
    LET ranked == SortByScore(ScoresOf(mode, lists, FirstSeen(Flatten(lists), {})), <<>>)
    IN [p \in 1..Len(ranked) |-> ranked[p].node]

\* the reformulations the LLM may answer with when asked for n of them
GeneratedQueries(n) == IF n <= 0 THEN {<<>>} ELSE [1..n -> QueryStrings]

\* QueryFusionRetriever.retrieve with the reformulations gen
FusionRetrieve(fusion, q, gen) ==
    LET lists == RunQueries(fusion.retrievers, <<q>> \o gen)
        fused == Fuse(fusion.mode, lists)
    IN SubSeq(fused, 1, Min(fusion.similarity_top_k, Len(fused)))

----------------------------------------------------------------------------
(* HybridFusionRetrieverPack *)

Configs ==
    [mode : Modes,
     vector_similarity_top_k : TopKs,
     bm25_similarity_top_k : TopKs,
     fusion_similarity_top_k : TopKs,
     num_queries : NumQueriesChoices]

NoCfg == [mode |-> "none"]

\* mutant: the fusion retriever is given the vector retriever's top-k
FusionTopK_vector(c) == c.vector_similarity_top_k

\* similarity_top_k=fusion_similarity_top_k
FusionTopK(c) == c.fusion_similarity_top_k

\* mutant: num_queries is not passed on, so the default of 4 applies
FusionNumQueries_default(c) == 4

\* num_queries=num_queries
FusionNumQueries(c) == c.num_queries

InitA(c, u) ==
    LET vector_retriever == [kind |-> "vector_retriever", oid |-> u + 2,
                             similarity_top_k |-> c.vector_similarity_top_k]
        bm25_retriever == [kind |-> "bm25_retriever", oid |-> u + 3,
                           similarity_top_k |-> c.bm25_similarity_top_k]
    IN [cls |-> "A",
        vector_retriever |-> vector_retriever,
        bm25_retriever |-> bm25_retriever,
        fusion_retriever |-> [kind |-> "fusion_retriever", oid |-> u + 4,
                              retrievers |-> <<vector_retriever, bm25_retriever>>,
                              similarity_top_k |-> FusionTopK(c),
                              num_queries |-> FusionNumQueries(c),
                              mode |-> c.mode],
        query_engine |-> [kind |-> "query_engine", oid |-> u + 5, retriever |-> u + 4]]

\* mutant: the lexical handle names the vector retriever
ModulesA_swapped(self) ==
    [vector_retriever |-> self.vector_retriever,
     bm25_retriever |-> self.vector_retriever,
     fusion_retriever |-> self.fusion_retriever,
     query_engine |-> self.query_engine]

\* get_modules of pack A
ModulesA(self) ==
    [vector_retriever |-> self.vector_retriever,
     bm25_retriever |-> self.bm25_retriever,
     fusion_retriever |-> self.fusion_retriever,
     query_engine |-> self.query_engine]

\* mutant: pack A without its retrieve method
PackAMethods_noRetrieve == {"__init__", "get_modules", "run"}

PackAMethods == {"__init__", "get_modules", "retrieve", "run"}

Methods(cls) == IF cls = "A" THEN PackAMethods ELSE PackBMethods

EntryPoints == {"get_modules", "retrieve", "run"}

----------------------------------------------------------------------------
(* The client program: construction and entry-point calls *)

NoValue == <<>>

NoCall == [inst |-> 0, method |-> "none", outcome |-> "none", value |-> NoValue]

Idle == [pc |-> "idle", inst |-> 0, hits |-> <<>>, pending |-> <<>>, out |-> <<>>]

\* the client may start a call once the previous call's value is dropped
Ready == rr.pc = "idle" /\ last.method \in {"none", "__init__"}

Call(i, m, outcome, value) ==
    [inst |-> i, method |-> m, outcome |-> outcome, value |-> value]

Init ==
    /\ target \in {"A", "B"}
    /\ docs \in (IF target = "B" THEN SeqsUpTo(DocLens, MaxDocs) ELSE {<<>>})
    /\ cfg \in (IF target = "A" THEN Configs ELSE {NoCfg})
    /\ packs = <<>>
    /\ fresh = 1
    /\ last = NoCall
    /\ rr = Idle
    /\ retrLog = [q \in QueryStrings |-> [calls |-> 0, seen |-> {}]]

\* HybridFusionRetrieverPack(nodes, **cfg)
ConstructA ==
    /\ target = "A"
    /\ Ready
    /\ Len(packs) < MaxBuilds
    /\ packs' = Append(packs, InitA(cfg, fresh))
    /\ fresh' = fresh + 6
    /\ last' = Call(Len(packs) + 1, "__init__", "ok", NoValue)
    /\ UNCHANGED <<target, docs, cfg, rr, retrLog>>

\* RecursiveRetrieverSmallToBigPack(docs)
ConstructB ==
    /\ target = "B"
    /\ Ready
    /\ Len(packs) < MaxBuilds
    /\ packs' = Append(packs, InitB(docs, fresh))
    /\ fresh' = fresh + UsedB(docs, fresh)
    /\ last' = Call(Len(packs) + 1, "__init__", "ok", NoValue)
    /\ UNCHANGED <<target, docs, cfg, rr, retrLog>>

\* pack.get_modules() on pack A
GetModulesA(i) ==
    /\ Ready
    /\ packs[i].cls = "A"
    /\ last' = Call(i, "get_modules", "ok", ModulesA(packs[i]))
    /\ UNCHANGED <<target, docs, cfg, packs, fresh, rr, retrLog>>

\* pack.get_modules() on pack B
GetModulesB(i) ==
    /\ Ready
    /\ packs[i].cls = "B"
    /\ last' = Call(i, "get_modules", "ok", ModulesB(packs[i]))
    /\ UNCHANGED <<target, docs, cfg, packs, fresh, rr, retrLog>>

ReformulationCount(fusion) == IF fusion.num_queries > 1 THEN fusion.num_queries - 1 ELSE 0

\* pack.retrieve(query_str) on pack A
RetrieveA(i, q) ==
    /\ Ready
    /\ "retrieve" \in Methods(packs[i].cls)
    /\ \E gen \in GeneratedQueries(ReformulationCount(packs[i].fusion_retriever)) :
         LET result == FusionRetrieve(packs[i].fusion_retriever, q, gen)
         IN /\ last' = Call(i, "retrieve", "ok", result)
            /\ retrLog' = [retrLog EXCEPT ![q] =
                              [calls |-> Min(@.calls + 1, 2),
                               seen |-> @.seen \cup
                                          {[generated |-> gen, result |-> result]}]]
    /\ UNCHANGED <<target, docs, cfg, packs, fresh, rr>>

\* mutant: run builds a new query engine and stores it in the pack
RunA_rebuilt(i, q) ==
    /\ Ready
    /\ packs[i].cls = "A"
    /\ \E gen \in GeneratedQueries(ReformulationCount(packs[i].fusion_retriever)) :
         last' = Call(i, "run", "ok",
                      [response |-> "answer",
                       source_nodes |-> FusionRetrieve(packs[i].fusion_retriever, q, gen)])
    /\ packs' = [packs EXCEPT ![i].query_engine.oid = fresh]
    /\ UNCHANGED <<target, docs, cfg, fresh, rr, retrLog>>

\* pack.run(query) on pack A: retrieval through the query engine, then synthesis
RunA(i, q) ==
    /\ Ready
    /\ packs[i].cls = "A"
    /\ \E gen \in GeneratedQueries(ReformulationCount(packs[i].fusion_retriever)) :
         last' = Call(i, "run", "ok",
                      [response |-> "answer",
                       source_nodes |-> FusionRetrieve(packs[i].fusion_retriever, q, gen)])
    /\ UNCHANGED <<target, docs, cfg, packs, fresh, rr, retrLog>>

\* pack.run(query) on pack B: the query engine asks the recursive retriever,
\* which queries its root retriever and then resolves each hit's reference
RunB(i) ==
    /\ Ready
    /\ packs[i].cls = "B"
    /\ \E h \in HitSeqs(packs[i]) :
         LET hits == [k \in 1..Len(h) |-> packs[i].vector_index_chunk.nodes[h[k]]]
             kept == DedupHits(hits, {})
         IN rr' = [pc |-> "resolving", inst |-> i, hits |-> hits,
                   pending |-> [k \in 1..Len(kept) |->
                                  [hit |-> kept[k], query_id |-> kept[k].index_id,
                                   lookups |-> 0]],
                   out |-> <<>>]
    /\ last' = Call(i, "run", "running", NoValue)
    /\ UNCHANGED <<target, docs, cfg, packs, fresh, retrLog>>

\* one reference resolution of the recursive retriever: the object the
\* reference names is looked up; a node is returned as it is
ResolveStep ==
    /\ rr.pc = "resolving"
    /\ rr.pending # <<>>
    /\ LET e == Head(rr.pending)
           obj == GetObject(packs[rr.inst].recursive_retriever, e.query_id)
       IN IF obj.kind = "node"
          THEN /\ rr' = [rr EXCEPT !.pending = Tail(@),
                                   !.out = Append(@, [hit |-> e.hit, node |-> obj.node,
                                                      lookups |-> e.lookups + 1])]
               /\ UNCHANGED last
          ELSE /\ rr' = Idle
               /\ last' = Call(rr.inst, "run", "ValueError", NoValue)
    /\ UNCHANGED <<target, docs, cfg, packs, fresh, retrLog>>

\* all references resolved: the answer is synthesised over the resolved nodes
FinishRunB ==
    /\ rr.pc = "resolving"
    /\ rr.pending = <<>>
    /\ last' = Call(rr.inst, "run", "ok",
                    [response |-> "answer", hits |-> rr.hits, source_nodes |-> rr.out])
    /\ rr' = Idle
    /\ UNCHANGED <<target, docs, cfg, packs, fresh, retrLog>>

\* calling an entry point the pack's class does not define
CallMissing(i, m) ==
    /\ Ready
    /\ m \notin Methods(packs[i].cls)
    /\ last' = Call(i, m, "AttributeError", NoValue)
    /\ UNCHANGED <<target, docs, cfg, packs, fresh, rr, retrLog>>

\* the client drops the value the previous call returned
Discard ==
    /\ rr.pc = "idle"
    /\ last.method \notin {"none", "__init__"}
    /\ last' = NoCall
    /\ UNCHANGED <<target, docs, cfg, packs, fresh, rr, retrLog>>

Next ==
    \/ ConstructA
    \/ ConstructB
    \/ \E i \in 1..Len(packs) : GetModulesA(i)
    \/ \E i \in 1..Len(packs) : GetModulesB(i)
    \/ \E i \in 1..Len(packs), q \in QueryStrings : RetrieveA(i, q)
    \/ \E i \in 1..Len(packs), q \in QueryStrings : RunA(i, q)
    \/ \E i \in 1..Len(packs) : RunB(i)
    \/ ResolveStep
    \/ FinishRunB
    \/ \E i \in 1..Len(packs), m \in EntryPoints : CallMissing(i, m)
    \/ Discard

Spec == Init /\ [][Next]_vars

----------------------------------------------------------------------------
(* Properties *)

PacksB == {i \in 1..Len(packs) : packs[i].cls = "B"}
PacksA == {i \in 1..Len(packs) : packs[i].cls = "A"}

IndexedNodes(i) == Range(packs[i].vector_index_chunk.nodes)
NodeDict(i) == packs[i].recursive_retriever.node_dict
Parents(i) == Range(packs[i].base_nodes)

IsChild(n) == n.id_ # n.index_id

Contains(big, small) ==
    big.doc = small.doc /\ big.lo <= small.lo /\ small.hi <= big.hi

\* the parent chunk a node was cut from: the one whose span holds the node's
DesignatedParents(i, n) == {b \in Parents(i) : Contains(b, n)}

ChildrenOf(i, b) ==
    {k \in 1..Len(packs[i].vector_index_chunk.nodes) :
        LET n == packs[i].vector_index_chunk.nodes[k]
        IN n.index_id = b.id_ /\ IsChild(n)}

\* the pack B instance of the run in progress or just finished
rrInst == IF rr.pc = "resolving" THEN rr.inst ELSE last.inst

\* the resolutions of the pack B run in progress or just finished
Resolved ==
    IF target = "B" /\ last.method = "run" /\ last.outcome = "ok"
    THEN Range(last.value.source_nodes)
    ELSE Range(rr.out)

\* C1: in every constructed pack B, the parent reference (index_id) of every
\* node placed in the index is a key of the node mapping built at construction.
C1_ReferencesResolve ==
    \A i \in PacksB : \A n \in IndexedNodes(i) : n.index_id \in DOMAIN NodeDict(i)

C1_Witness ==
    \E i \in PacksB :
        /\ Len(packs[i].base_nodes) >= 2
        /\ \E n \in IndexedNodes(i) : IsChild(n) /\ NodeDict(i)[n.index_id].id_ = n.index_id

\* C2: the i-th parent chunk (0-based, in document order) has identifier
\* node-i, and two packs constructed from the same documents have the same
\* sequence of parent identifiers.
C2_ParentIdsStable ==
    /\ \A i \in PacksB :
         LET base == packs[i].base_nodes
         IN /\ \A k \in 1..Len(base) : base[k].id_ = NodeId(k - 1)
            /\ \A k, l \in 1..Len(base) :
                 k < l => \/ base[k].doc < base[l].doc
                          \/ base[k].doc = base[l].doc /\ base[k].lo < base[l].lo
    /\ \A i, j \in PacksB :
         [k \in 1..Len(packs[i].base_nodes) |-> packs[i].base_nodes[k].id_]
           = [k \in 1..Len(packs[j].base_nodes) |-> packs[j].base_nodes[k].id_]

C2_Witness ==
    /\ Cardinality(PacksB) >= 2
    /\ \A i \in PacksB : Len(packs[i].base_nodes) >= 3

SubSizesClaimed == {128, 256, 512}

\* C3: for two documents of more than 1024 tokens in total, a constructed
\* pack B has at least one parent; every parent has at least 3 children in the
\* index, among them the first chunk of each sub-chunk size 128, 256 and 512;
\* and every child's reference is the identifier node-i of the parent it was
\* cut from.
C3_TwoDocuments ==
    (target = "B" /\ Len(docs) = 2 /\ SumSeq(docs) > 1024) =>
        \A i \in PacksB :
            /\ Len(packs[i].base_nodes) >= 1
            /\ \A b \in Parents(i) :
                 /\ Cardinality(ChildrenOf(i, b)) >= 3
                 /\ \A c \in SubSizesClaimed :
                      \E k \in ChildrenOf(i, b) :
                         LET n == packs[i].vector_index_chunk.nodes[k]
                         IN n.lo = b.lo /\ n.hi = Min(b.hi, b.lo + c)
            /\ \A n \in IndexedNodes(i) :
                 IsChild(n) =>
                    /\ DesignatedParents(i, n) # {}
                    /\ \A b \in DesignatedParents(i, n) : n.index_id = b.id_
                    /\ \E k \in 1..Len(packs[i].base_nodes) : n.index_id = NodeId(k - 1)

C3_Witness ==
    /\ target = "B" /\ Len(docs) = 2 /\ SumSeq(docs) > 1024
    /\ \E i \in PacksB :
         /\ Len(packs[i].base_nodes) >= 2
         /\ \E b \in Parents(i) : Cardinality(ChildrenOf(i, b)) = 3
         /\ \E b \in Parents(i) : Cardinality(ChildrenOf(i, b)) > 3

\* C4: in a pack B run, the node returned for a hit is the entry of the hit's
\* designated parent (or the hit itself), its span holds the hit's span, and it
\* is no larger than that parent; no run fails to resolve a reference.
C4_ResolvesToParent ==
    /\ last.outcome # "ValueError"
    /\ \A e \in Resolved :
         /\ Contains(e.node, e.hit)
         /\ \/ e.node = e.hit
            \/ \E b \in DesignatedParents(rrInst, e.hit) :
                  /\ e.node.id_ = b.id_
                  /\ e.node.lo = b.lo /\ e.node.hi = b.hi

C4_Witness ==
    /\ target = "B" /\ last.method = "run" /\ last.outcome = "ok"
    /\ Len(packs[last.inst].base_nodes) >= 2
    /\ Len(last.value.source_nodes) = 2
    /\ \A e \in Range(last.value.source_nodes) :
         IsChild(e.hit) /\ e.node.hi - e.node.lo > e.hit.hi - e.hit.lo

\* C5: a retrieve call on pack A returns at most fusion_similarity_top_k
\* chunks, whatever the other top-k values and num_queries are.
C5_AtMostFusionTopK ==
    /\ (target = "A" /\ last.method = "retrieve" /\ last.outcome = "ok") =>
          Len(last.value) <= cfg.fusion_similarity_top_k
    /\ target = "A" =>
          \A q \in QueryStrings : \A e \in retrLog[q].seen :
             Len(e.result) <= cfg.fusion_similarity_top_k

C5_Witness ==
    /\ target = "A" /\ last.method = "retrieve" /\ last.outcome = "ok"
    /\ cfg.fusion_similarity_top_k = 1 /\ Len(last.value) = 1
    /\ cfg.vector_similarity_top_k = 3 /\ cfg.bm25_similarity_top_k = 3
    /\ cfg.num_queries = 2

\* C6 as stated: every entry point (get_modules, retrieve, run) called on a
\* constructed pack of either class is found.
C6_AllEntryPointsOnBoth == last.outcome # "AttributeError"

\* C6 as amended: pack A defines __init__, get_modules, retrieve and run; pack
\* B defines __init__, get_modules and run but no retrieve, so the only call
\* that is not found is retrieve on pack B.
C6_EntryPoints ==
    /\ last.method \in {"__init__", "get_modules", "retrieve", "run"} =>
          (last.outcome = "AttributeError"
             <=> (packs[last.inst].cls = "B" /\ last.method = "retrieve"))
    /\ \A i \in PacksA : \A m \in EntryPoints : ~(ENABLED CallMissing(i, m))

C6_Witness ==
    /\ target = "B" /\ last.method = "retrieve" /\ last.outcome = "AttributeError"
    /\ Len(packs) = 2

\* C7 as stated: get_modules of each pack returns handles named for the vector
\* retriever, the lexical retriever, the fusion or recursive retriever and the
\* query engine, each the instance built at construction.
C7_FourHandlesOnBoth ==
    (last.method = "get_modules" /\ last.outcome = "ok") =>
        LET self == packs[last.inst]
        IN /\ {"vector_retriever", "bm25_retriever", "query_engine"}
                 \subseteq DOMAIN last.value
           /\ last.value.vector_retriever = self.vector_retriever
           /\ last.value.bm25_retriever = self.bm25_retriever
           /\ last.value.query_engine = self.query_engine

\* C7 as amended: get_modules of pack A returns exactly vector_retriever,
\* bm25_retriever, fusion_retriever and query_engine; get_modules of pack B
\* returns exactly query_engine, recursive_retriever, llm, embed_model and
\* service_context (no vector or lexical retriever); each handle is the
\* component built at construction.
C7_Modules ==
    (last.method = "get_modules" /\ last.outcome = "ok") =>
        LET self == packs[last.inst]
        IN IF self.cls = "A"
           THEN /\ DOMAIN last.value = {"vector_retriever", "bm25_retriever",
                                        "fusion_retriever", "query_engine"}
                /\ last.value.vector_retriever = self.vector_retriever
                /\ last.value.vector_retriever.kind = "vector_retriever"
                /\ last.value.bm25_retriever = self.bm25_retriever
                /\ last.value.bm25_retriever.kind = "bm25_retriever"
                /\ last.value.fusion_retriever = self.fusion_retriever
                /\ last.value.fusion_retriever.kind = "fusion_retriever"
                /\ last.value.query_engine = self.query_engine
                /\ last.value.query_engine.kind = "query_engine"
           ELSE /\ DOMAIN last.value = {"query_engine", "recursive_retriever", "llm",
                                        "embed_model", "service_context"}
                /\ last.value.query_engine = self.query_engine
                /\ last.value.recursive_retriever = self.recursive_retriever
                /\ last.value.llm = self.llm
                /\ last.value.embed_model = self.embed_model
                /\ last.value.service_context = self.service_context

C7_Witness ==
    /\ last.method = "get_modules" /\ last.outcome = "ok"
    /\ target = "A" /\ last.inst = 2
    /\ last.value.bm25_retriever.oid # last.value.vector_retriever.oid

\* C8: with num_queries = 1 no reformulated query is generated, and all
\* retrieve calls with the same query on the same corpus and configuration
\* return the same ranked list.
C8_SinglePassDeterministic ==
    (target = "A" /\ cfg.num_queries = 1) =>
        \A q \in QueryStrings :
            /\ \A e \in retrLog[q].seen : e.generated = <<>>
            /\ Cardinality(retrLog[q].seen) <= 1

C8_Witness ==
    /\ target = "A" /\ cfg.num_queries = 1
    /\ cfg.fusion_similarity_top_k = 3 /\ cfg.vector_similarity_top_k = 3
    /\ Len(packs) = 2
    /\ \E q \in QueryStrings :
         /\ retrLog[q].calls = 2
         /\ \E e \in retrLog[q].seen : Len(e.result) = 3

\* C9: no step changes the fields of a pack that is already constructed:
\* get_modules, retrieve and run (and every step of a run) leave every
\* component field, the configuration stored in the components and the node
\* mapping as they were; construction only adds a new pack.
C9_CallsLeaveStateUnchanged ==
    [][/\ Len(packs') >= Len(packs)
       /\ SubSeq(packs', 1, Len(packs)) = packs
       /\ (last'.method \in EntryPoints \/ rr' # rr) => packs' = packs]_vars

C9_Witness ==
    /\ target = "A" /\ last.method = "run" /\ last.outcome = "ok"
    /\ \A q \in QueryStrings : retrLog[q].calls >= 1
    /\ last.inst = 1 /\ Len(packs) = 2

\* C10: every parent chunk is indexed under its own node-i with a reference
\* to itself, so its entry in the node mapping refers to itself; resolving a
\* hit's reference takes exactly one lookup in the node mapping, returns that
\* entry, and the entry's own reference is not followed: the resolutions done
\* and still pending always add up to the deduplicated hits.
C10_OneLookup ==
    /\ \A i \in PacksB : \A b \in Parents(i) :
         /\ b.id_ \in DOMAIN NodeDict(i)
         /\ NodeDict(i)[b.id_].id_ = b.id_
         /\ NodeDict(i)[b.id_].index_id = b.id_
         /\ NodeDict(i)[b.id_] \in IndexedNodes(i)
    /\ last.outcome # "ValueError"
    /\ \A e \in Resolved :
         /\ e.lookups = 1
         /\ e.node = NodeDict(rrInst)[e.hit.index_id]
    /\ rr.pc = "resolving" =>
         /\ Len(rr.out) + Len(rr.pending) = Len(DedupHits(rr.hits, {}))
         /\ \A k \in 1..Len(rr.pending) : rr.pending[k].lookups = 0

C10_Witness ==
    /\ target = "B" /\ last.method = "run" /\ last.outcome = "ok"
    /\ Len(packs[last.inst].base_nodes) >= 2
    /\ \E e \in Range(last.value.source_nodes) :
         /\ ~IsChild(e.hit)
         /\ e.node = e.hit
         /\ e.lookups = 1
         /\ e.node.index_id = e.node.id_

====
